---- MODULE Spec2Model ----
(***************************************************************************)
(* Model of src/src/playlist_downloader/__init__.py: the workflow of       *)
(* PlaylistTruncator.run (connectivity check, authentication, paginated    *)
(* read, optional download, deletion) and of the calls it makes.           *)
(*                                                                         *)
(* Every call that leaves the process (socket probe, token file, OAuth     *)
(* library, REST request, subprocess, mkdir) is one step whose outcome is  *)
(* chosen nondeterministically among "returns" and the exceptions it can   *)
(* raise; `log` records these calls in the order they are issued.          *)
(***************************************************************************)
EXTENDS Integers, Sequences, FiniteSets, TLC

\* ------------------------------------------------------------------ bounds
MaxPages == 2        \* pages the server splits the playlist into
MaxItems == 3        \* items in the remote playlist
MaxParams == 2       \* query parameters of a constructed playlist URL (SpecConfig)
MaxCalls == 2        \* get_service calls on one authenticator (SpecAuth)

\* ------------------------------------------------------------ Python values
\* Optional[str]: None is the empty tuple, a string s is <<s>>; a string is
\* the tuple of its characters.
None == <<>>
Some(s) == <<s>>

\* Python truthiness of an Optional[str]: None and "" are falsy.
Truthy(o) == o # None /\ o[1] # <<>>

\* next_page_token = None / self._service = None
NoToken == 0
NoService == 0

VARIABLES
  config,           \* YouTubeConfig after __post_init__: playlist_url, playlist_id
  download_first,   \* argument of PlaylistTruncator.run
  tokenFile,        \* content of config.token_pickle_file on disk
  pages,            \* the remote playlist as the server pages it
  remote,           \* playlist-item ids currently in the remote playlist
  pc,               \* position of the single thread of control
  service,          \* YouTubeAuthenticator._service
  youtube,          \* what get_service returned to its caller
  creds,            \* local `creds` of get_service
  items,            \* local `items` of list_items / of run
  next_page_token,  \* local of list_items
  video_list,       \* PlaylistDownloader.video_list (None: none constructed)
  idx,              \* position of the running for-loop
  exc,              \* exception in flight ("" when none)
  report,           \* the outcome line run printed ("" while running)
  calls,            \* get_service calls made so far on this authenticator
  log               \* external calls issued so far, in order

vars == <<config, download_first, tokenFile, pages, remote, pc, service, youtube,
          creds, items, next_page_token, video_list, idx, exc, report, calls, log>>

\* One external call: op, its argument (a cursor or an item id, 0 if none)
\* and how it ended.
Ev(op, arg, res) == [op |-> op, arg |-> arg, res |-> res]
Logged(e) == log' = Append(log, e)

\* ------------------------------------------------- YouTubeConfig.__post_init__
\* Positions at which r"[?&]list=([^&]+)" matches in url.
ListMatchAt(url, i) ==
  /\ i + 6 <= Len(url)
  /\ url[i] \in {"?", "&"}
  /\ SubSeq(url, i + 1, i + 5) = <<"l", "i", "s", "t", "=">>
  /\ url[i + 6] # "&"

\* group(1) of the match starting at i: the longest run of non-'&' characters.
ListGroup(url, i) ==
  LET stops == {j \in (i + 6)..Len(url) : url[j] = "&"}
      last == IF stops = {} THEN Len(url)
              ELSE (CHOOSE j \in stops : \A k \in stops : j <= k) - 1
  IN  SubSeq(url, i + 6, last)

\* re.search: the leftmost match, None when there is none.
SearchList(url) ==
  LET at == {i \in 1..Len(url) : ListMatchAt(url, i)}
  IN  IF at = {} THEN None
      ELSE Some(ListGroup(url, CHOOSE i \in at : \A k \in at : i <= k))

\* playlist_id after __post_init__, from the constructor's arguments.
PostInit(playlist_url, playlist_id) ==
  IF ~Truthy(playlist_id) /\ Truthy(playlist_url)
  THEN LET m == SearchList(playlist_url[1])
       IN  IF m # None THEN m ELSE playlist_id
  ELSE playlist_id

\* The fields the program reads; the notification and SMTP fields default to
\* None (lines 33-37).
YouTubeConfig(playlist_url, playlist_id) ==
  [playlist_url |-> playlist_url,
   playlist_id  |-> PostInit(playlist_url, playlist_id),
   notification_email |-> None,
   smtp_host |-> None,
   smtp_username |-> None,
   smtp_password |-> None]

\* A configuration constructed with notification / SMTP keyword arguments.
WithEmail(cfg, email, host, username, password) ==
  [cfg EXCEPT !.notification_email = email, !.smtp_host = host,
              !.smtp_username = username, !.smtp_password = password]

\* ------------------------------------------------------------------ inputs
\* "p?list=AB" and "p?v=A" as character tuples.
UrlList == <<"p", "?", "l", "i", "s", "t", "=", "A", "B">>
UrlNoList == <<"p", "?", "v", "=", "A">>

Urls == {None, Some(UrlList), Some(UrlNoList)}
ExplicitIds == {None, Some(<<"X">>)}
\* An optional setting: absent from the environment, empty, or set.
Settings == {None, Some(<<>>), Some(<<"s">>)}

\* URLs given to the constructor: a path, an optional query of up to
\* MaxParams parameters joined by "&", an optional fragment.
Params == {<<"l", "i", "s", "t", "=", "A">>, <<"l", "i", "s", "t", "=">>,
           <<"v", "=", "B">>, <<"x", "l", "i", "s", "t", "=", "C">>}
Fragments == {<<>>, <<"#", "f">>}
ParamSeqs == UNION {[1..n -> Params] : n \in 0..MaxParams}

RECURSIVE Join(_)
Join(ps) ==
  IF Len(ps) = 0 THEN <<>>
  ELSE IF Len(ps) = 1 THEN ps[1]
  ELSE ps[1] \o <<"&">> \o Join(Tail(ps))

Url(ps, frag) ==
  <<"p">> \o (IF ps = <<>> THEN <<>> ELSE <<"?">> \o Join(ps)) \o frag

ConfigUrls == {None} \cup {Some(Url(ps, f)) : ps \in ParamSeqs, f \in Fragments}
ConfigIds == {None, Some(<<>>), Some(<<"X">>)}

\* A credential object: the three attributes get_service reads.
Cred(v, e, r) == [valid |-> v, expired |-> e, refresh_token |-> r]
\* google credentials are valid only when not expired.
Creds == {c \in [valid : BOOLEAN, expired : BOOLEAN, refresh_token : BOOLEAN] :
            c.valid => ~c.expired}

\* The token file: missing, not deserializable, not openable, or a pickled
\* credential.
Absent == [file |-> "absent", creds |-> None]
Corrupt == [file |-> "corrupt", creds |-> None]
Unreadable == [file |-> "unreadable", creds |-> None]
Pickled(c) == [file |-> "pickle", creds |-> Some(c)]
TokenFiles == {Absent, Corrupt, Unreadable} \cup {Pickled(c) : c \in Creds}
\* One token file for each branch of get_service (interactive flow, reuse,
\* refresh): the files a run starts from. SpecAuth ranges over TokenFiles.
RunTokenFiles == {Absent, Pickled(Cred(TRUE, FALSE, TRUE)), Pickled(Cred(FALSE, TRUE, TRUE))}

\* The server's pages: page sizes, then consecutive item ids 1..N in order.
RECURSIVE Sum(_)
Sum(s) == IF s = <<>> THEN 0 ELSE s[1] + Sum(Tail(s))

PageSizes == UNION {{s \in [1..n -> 0..MaxItems] : Sum(s) <= MaxItems} : n \in 1..MaxPages}

PagesOf(sizes) ==
  [k \in 1..Len(sizes) |->
     LET off == Sum(SubSeq(sizes, 1, k - 1))
     IN  [i \in 1..sizes[k] |-> off + i]]

RECURSIVE Flatten(_)
Flatten(ps) == IF ps = <<>> THEN <<>> ELSE ps[1] \o Flatten(Tail(ps))

AllIds(ps) == {Flatten(ps)[i] : i \in 1..Len(Flatten(ps))}

\* ---------------------------------------------------------------- exceptions
\* raise e: control leaves the current function towards the caller's handlers.
Raise(e) == pc' = "except" /\ exc' = e

\* What a REST request or a socket can raise besides HttpError: a builtin
\* ConnectionError (reset, refused) or anything else (timeout, TLS, ...).
Unclassified == {"ConnectionError", "Other"}

\* ------------------------------------------- check_internet_connection()
\* True when the socket connects, False on timeout / gaierror / OSError.
CheckResult(up) == IF up THEN "up" ELSE "down"

\* ------------------------------------------ YouTubeAuthenticator.get_service
\* SelectPath with line 81 testing the credential's presence only.
SelectPathRefreshAny(c) ==
  IF c = None \/ ~c[1].valid
  THEN IF c # None
       THEN "gs_refresh"
       ELSE "gs_flow"
  ELSE "gs_build"

\* SelectPath with lines 101-103 outside the if of line 80: valid cached
\* credentials are written back too.
SelectPathAlwaysSave(c) ==
  IF c = None \/ ~c[1].valid
  THEN IF c # None /\ c[1].expired /\ c[1].refresh_token
       THEN "gs_refresh"
       ELSE "gs_flow"
  ELSE "gs_save"

\* Which branch lines 80-99 take for the loaded creds.
SelectPath(c) ==
  IF c = None \/ ~c[1].valid
  THEN IF c # None /\ c[1].expired /\ c[1].refresh_token
       THEN "gs_refresh"
       ELSE "gs_flow"
  ELSE "gs_build"

\* GsEntry without lines 62-63: every call authenticates again.
GsEntryNoCache ==
  /\ pc = "get_service"
  /\ \E up \in BOOLEAN :
       /\ Logged(Ev("check_auth", 0, CheckResult(up)))
       /\ IF up THEN pc' = "gs_load" /\ exc' = exc
                ELSE Raise("ConnectionError")
       /\ youtube' = youtube
  /\ UNCHANGED <<config, download_first, tokenFile, pages, remote, service, creds,
                 items, next_page_token, video_list, idx, report, calls>>

\* Lines 62-67: the cached handle, else the connectivity precondition.
GsEntry ==
  /\ pc = "get_service"
  /\ IF service # NoService
     THEN /\ youtube' = service
          /\ pc' = "gs_return"
          /\ UNCHANGED <<log, exc>>
     ELSE \E up \in BOOLEAN :
            /\ Logged(Ev("check_auth", 0, CheckResult(up)))
            /\ IF up THEN pc' = "gs_load" /\ exc' = exc
                     ELSE Raise("ConnectionError")
            /\ youtube' = youtube
  /\ UNCHANGED <<config, download_first, tokenFile, pages, remote, service, creds,
                 items, next_page_token, video_list, idx, report, calls>>

\* GsLoad without the try/except of lines 72-77: a file that cannot be
\* opened or unpickled raises out of get_service.
GsLoadStrict ==
  /\ pc = "gs_load"
  /\ IF tokenFile.file = "absent"
     THEN creds' = None /\ log' = log /\ pc' = SelectPath(creds') /\ exc' = exc
     ELSE IF tokenFile.file = "pickle"
     THEN /\ creds' = tokenFile.creds /\ Logged(Ev("token_read", 0, "ok"))
          /\ pc' = SelectPath(creds') /\ exc' = exc
     ELSE creds' = None /\ Logged(Ev("token_read", 0, "error")) /\ Raise("Other")
  /\ UNCHANGED <<config, download_first, tokenFile, pages, remote, service, youtube,
                 items, next_page_token, video_list, idx, report, calls>>

\* Lines 69-81: load the cached credentials; any failure to open or to
\* unpickle leaves creds = None. Then the branch of line 80/81.
GsLoad ==
  /\ pc = "gs_load"
  /\ IF tokenFile.file = "absent"
     THEN creds' = None /\ log' = log
     ELSE IF tokenFile.file = "pickle"
     THEN creds' = tokenFile.creds /\ Logged(Ev("token_read", 0, "ok"))
     ELSE creds' = None /\ Logged(Ev("token_read", 0, "error"))
  /\ pc' = SelectPath(creds')
  /\ UNCHANGED <<config, download_first, tokenFile, pages, remote, service, youtube,
                 items, next_page_token, video_list, idx, exc, report, calls>>

\* Line 82: creds.refresh(Request()).
GsRefresh ==
  /\ pc = "gs_refresh"
  /\ \E ok \in BOOLEAN :
       /\ Logged(Ev("refresh", 0, IF ok THEN "ok" ELSE "raised"))
       /\ IF ok THEN /\ creds' = Some(Cred(TRUE, FALSE, TRUE))
                     /\ pc' = "gs_save"
                     /\ exc' = exc
               ELSE Raise("Other") /\ creds' = creds
  /\ UNCHANGED <<config, download_first, tokenFile, pages, remote, service, youtube,
                 items, next_page_token, video_list, idx, report, calls>>

\* Lines 84-93: from_client_secrets_file reads the client secrets (and
\* raises when it cannot); run_local_server then builds the authorization URL.
\* Whether the library invokes the function passed as
\* authorization_url_callback is the library's matter: both outcomes.
GsFlowStart ==
  /\ pc = "gs_flow"
  /\ \E ok \in BOOLEAN, called \in BOOLEAN :
       IF ok THEN /\ pc' = IF called THEN "gs_notify" ELSE "gs_wait"
                  /\ UNCHANGED <<log, exc>>
             ELSE Logged(Ev("flow", 0, "raised")) /\ Raise("Other")
  /\ UNCHANGED <<config, download_first, tokenFile, pages, remote, service, youtube,
                 creds, items, next_page_token, video_list, idx, report, calls>>

\* GsNotify without the try/except of lines 223-245: a transport failure
\* leaves send_auth_url, the callback and run_local_server.
GsNotifyRaises ==
  /\ pc = "gs_notify"
  /\ IF ~Truthy(config.notification_email)
     THEN pc' = "gs_wait" /\ UNCHANGED <<log, exc>>
     ELSE IF ~(Truthy(config.smtp_username) /\ Truthy(config.smtp_password))
     THEN pc' = "gs_wait" /\ UNCHANGED <<log, exc>>
     ELSE \E res \in (IF Truthy(config.smtp_host) THEN {"sent", "failed"} ELSE {"failed"}) :
            /\ Logged(Ev("smtp", 0, res))
            /\ IF res = "sent" THEN pc' = "gs_wait" /\ exc' = exc
                               ELSE Raise("Other")
  /\ UNCHANGED <<config, download_first, tokenFile, pages, remote, service, youtube,
                 creds, items, next_page_token, video_list, idx, report, calls>>

\* Lines 89-91 and 214-245: handle_auth_url prints the URL and calls
\* EmailNotifier.send_auth_url: return without an address, return without
\* SMTP credentials, else one SMTP session whose failure is caught. With no
\* smtp_host the SMTP object is not connected and starttls() raises.
GsNotify ==
  /\ pc = "gs_notify"
  /\ IF ~Truthy(config.notification_email)
     THEN log' = log
     ELSE IF ~(Truthy(config.smtp_username) /\ Truthy(config.smtp_password))
     THEN log' = log
     ELSE \E res \in (IF Truthy(config.smtp_host) THEN {"sent", "failed"} ELSE {"failed"}) :
            Logged(Ev("smtp", 0, res))
  /\ pc' = "gs_wait"
  /\ UNCHANGED <<config, download_first, tokenFile, pages, remote, service, youtube,
                 creds, items, next_page_token, video_list, idx, exc, report, calls>>

\* Lines 93-99: run_local_server waits for the redirect and fetches the
\* token; it returns fresh credentials or raises.
GsFlow ==
  /\ pc = "gs_wait"
  /\ \E ok \in BOOLEAN :
       /\ Logged(Ev("flow", 0, IF ok THEN "ok" ELSE "raised"))
       /\ IF ok THEN /\ creds' = Some(Cred(TRUE, FALSE, TRUE))
                     /\ pc' = "gs_save"
                     /\ exc' = exc
               ELSE Raise("Other") /\ creds' = creds
  /\ UNCHANGED <<config, download_first, tokenFile, pages, remote, service, youtube,
                 items, next_page_token, video_list, idx, report, calls>>

\* Lines 102-103: open(..., "wb") truncates, pickle.dump writes. A failing
\* open leaves the file as it was, a failing dump leaves a truncated file.
GsSave ==
  /\ pc = "gs_save"
  /\ \E res \in {"ok", "open_raised", "dump_raised"} :
       /\ Logged(Ev("token_write", 0, res))
       /\ tokenFile' = IF res = "ok" THEN [file |-> "pickle", creds |-> creds]
                       ELSE IF res = "dump_raised" THEN Corrupt
                       ELSE tokenFile
       /\ IF res = "ok" THEN pc' = "gs_build" /\ exc' = exc
                        ELSE Raise("Other")
  /\ UNCHANGED <<config, download_first, pages, remote, service, youtube, creds,
                 items, next_page_token, video_list, idx, report, calls>>

\* The handle build() returns: a new object at every call.
NewHandle == 1 + Cardinality({i \in 1..Len(log) : log[i].op = "build" /\ log[i].res = "ok"})

\* GsBuild with self.service assigned before build() has returned: a handle
\* stays cached when build() raises.
GsBuildCachesOnFailure ==
  /\ pc = "gs_build"
  /\ \E ok \in BOOLEAN :
       /\ Logged(Ev("build", 0, IF ok THEN "ok" ELSE "raised"))
       /\ service' = NewHandle
       /\ IF ok THEN /\ youtube' = NewHandle
                     /\ pc' = "gs_return"
                     /\ exc' = exc
               ELSE Raise("Other") /\ youtube' = youtube
  /\ UNCHANGED <<config, download_first, tokenFile, pages, remote, creds,
                 items, next_page_token, video_list, idx, report, calls>>

\* Lines 105-106: build the client, cache it, return it.
GsBuild ==
  /\ pc = "gs_build"
  /\ \E ok \in BOOLEAN :
       /\ Logged(Ev("build", 0, IF ok THEN "ok" ELSE "raised"))
       /\ IF ok THEN /\ service' = NewHandle
                     /\ youtube' = NewHandle
                     /\ pc' = "gs_return"
                     /\ exc' = exc
               ELSE Raise("Other") /\ UNCHANGED <<service, youtube>>
  /\ UNCHANGED <<config, download_first, tokenFile, pages, remote, creds,
                 items, next_page_token, video_list, idx, report, calls>>

\* A caller that calls get_service again on the same authenticator, after
\* the previous call returned or raised.
CallAgain ==
  /\ pc \in {"gs_return", "except"}
  /\ calls < MaxCalls
  /\ pc' = "get_service"
  /\ calls' = calls + 1
  /\ exc' = ""
  /\ creds' = None
  /\ youtube' = NoService
  /\ UNCHANGED <<config, download_first, tokenFile, pages, remote, service,
                 items, next_page_token, video_list, idx, report, log>>

\* --------------------------------------------------- PlaylistTruncator.run
\* RunCheck with the result of the probe ignored.
RunCheckIgnored ==
  /\ pc = "run"
  /\ \E up \in BOOLEAN :
       /\ Logged(Ev("check_run", 0, CheckResult(up)))
       /\ pc' = "get_service" /\ report' = report
  /\ UNCHANGED <<config, download_first, tokenFile, pages, remote, service, youtube,
                 creds, items, next_page_token, video_list, idx, exc, calls>>

\* Lines 260-267: the connectivity gate, then self.auth.get_service().
RunCheck ==
  /\ pc = "run"
  /\ \E up \in BOOLEAN :
       /\ Logged(Ev("check_run", 0, CheckResult(up)))
       /\ IF up THEN pc' = "get_service" /\ report' = report
               ELSE pc' = "done" /\ report' = "NoInternet"
  /\ UNCHANGED <<config, download_first, tokenFile, pages, remote, service, youtube,
                 creds, items, next_page_token, video_list, idx, exc, calls>>

\* Lines 269-270 and 119-120: the manager is built around the returned
\* handle and list_items starts with no items and no cursor.
RunManager ==
  /\ pc = "gs_return"
  /\ pc' = "list_items"
  /\ items' = <<>>
  /\ next_page_token' = NoToken
  /\ creds' = None
  /\ UNCHANGED <<config, download_first, tokenFile, pages, remote, service, youtube,
                 video_list, idx, exc, report, calls, log>>

\* ------------------------------------------ YouTubePlaylistManager.list_items
\* The server's answer to a list request carrying cursor t: the cursor of
\* page k+1 is k+1, the last page carries none.
Serve(t) ==
  LET k == IF t = NoToken THEN 1 ELSE t
  IN  [items |-> pages[k],
       nextPageToken |-> IF k < Len(pages) THEN k + 1 ELSE NoToken]

\* ListPage that returns after the first response, cursor or not.
ListPageFirstOnly ==
  /\ pc = "list_items"
  /\ \E res \in {"ok", "HttpError"} \cup Unclassified :
       /\ Logged(Ev("list", next_page_token, res))
       /\ IF res = "ok"
          THEN LET response == Serve(next_page_token)
               IN  /\ items' = items \o response.items
                   /\ next_page_token' = response.nextPageToken
                   /\ pc' = "run_found"
                   /\ exc' = exc
          ELSE IF res = "HttpError"
          THEN /\ pc' = "run_found"
               /\ UNCHANGED <<items, next_page_token, exc>>
          ELSE /\ Raise(res)
               /\ UNCHANGED <<items, next_page_token>>
  /\ UNCHANGED <<config, download_first, tokenFile, pages, remote, service, youtube,
                 creds, video_list, idx, report, calls>>

\* ListPage without the except clause: an HttpError leaves list_items.
ListPageHttpRaises ==
  /\ pc = "list_items"
  /\ \E res \in {"ok", "HttpError"} \cup Unclassified :
       /\ Logged(Ev("list", next_page_token, res))
       /\ IF res = "ok"
          THEN LET response == Serve(next_page_token)
               IN  /\ items' = items \o response.items
                   /\ next_page_token' = response.nextPageToken
                   /\ pc' = IF response.nextPageToken = NoToken
                            THEN "run_found" ELSE "list_items"
                   /\ exc' = exc
          ELSE /\ Raise(res)
               /\ UNCHANGED <<items, next_page_token>>
  /\ UNCHANGED <<config, download_first, tokenFile, pages, remote, service, youtube,
                 creds, video_list, idx, report, calls>>

\* Lines 122-140: one iteration of the while loop.
ListPage ==
  /\ pc = "list_items"
  /\ \E res \in {"ok", "HttpError"} \cup Unclassified :
       /\ Logged(Ev("list", next_page_token, res))
       /\ IF res = "ok"
          THEN LET response == Serve(next_page_token)
               IN  /\ items' = items \o response.items
                   /\ next_page_token' = response.nextPageToken
                   /\ pc' = IF response.nextPageToken = NoToken
                            THEN "run_found" ELSE "list_items"
                   /\ exc' = exc
          ELSE IF res = "HttpError"
          THEN /\ pc' = "run_found"
               /\ UNCHANGED <<items, next_page_token, exc>>
          ELSE /\ Raise(res)
               /\ UNCHANGED <<items, next_page_token>>
  /\ UNCHANGED <<config, download_first, tokenFile, pages, remote, service, youtube,
                 creds, video_list, idx, report, calls>>

\* RunFound that never runs the downloader.
RunFoundNoDownload ==
  /\ pc = "run_found"
  /\ video_list' = video_list /\ pc' = "run_guard"
  /\ UNCHANGED <<config, download_first, tokenFile, pages, remote, service, youtube,
                 creds, items, next_page_token, idx, exc, report, calls, log>>

\* Lines 271-279: hand the items to a PlaylistDownloader when asked to.
RunFound ==
  /\ pc = "run_found"
  /\ IF download_first /\ Truthy(config.playlist_url)
     THEN video_list' = Some(items) /\ pc' = "download"
     ELSE video_list' = video_list /\ pc' = "run_guard"
  /\ UNCHANGED <<config, download_first, tokenFile, pages, remote, service, youtube,
                 creds, items, next_page_token, idx, exc, report, calls, log>>

\* -------------------------------------------------- PlaylistDownloader.download
\* DlEntry with the result of the probe of line 175 ignored.
DlEntryIgnoresCheck ==
  /\ pc = "download"
  /\ IF ~Truthy(config.playlist_url)
     THEN pc' = "run_guard" /\ UNCHANGED <<log, exc>>
     ELSE \E up \in BOOLEAN :
            /\ Logged(Ev("check_download", 0, CheckResult(up)))
            /\ pc' = "dl_makedirs"
            /\ exc' = exc
  /\ UNCHANGED <<config, download_first, tokenFile, pages, remote, service, youtube,
                 creds, items, next_page_token, video_list, idx, report, calls>>

\* DlEntry raising the connectivity error instead of returning at line 177.
DlEntryAborts ==
  /\ pc = "download"
  /\ IF ~Truthy(config.playlist_url)
     THEN pc' = "run_guard" /\ UNCHANGED <<log, exc>>
     ELSE \E up \in BOOLEAN :
            /\ Logged(Ev("check_download", 0, CheckResult(up)))
            /\ IF up THEN pc' = "dl_makedirs" /\ exc' = exc
                     ELSE Raise("ConnectionError")
  /\ UNCHANGED <<config, download_first, tokenFile, pages, remote, service, youtube,
                 creds, items, next_page_token, video_list, idx, report, calls>>

\* Lines 171-177: the two early returns.
DlEntry ==
  /\ pc = "download"
  /\ IF ~Truthy(config.playlist_url)
     THEN pc' = "run_guard" /\ UNCHANGED <<log, exc>>
     ELSE \E up \in BOOLEAN :
            /\ Logged(Ev("check_download", 0, CheckResult(up)))
            /\ pc' = IF up THEN "dl_makedirs" ELSE "run_guard"
            /\ exc' = exc
  /\ UNCHANGED <<config, download_first, tokenFile, pages, remote, service, youtube,
                 creds, items, next_page_token, video_list, idx, report, calls>>

\* Line 180: os.makedirs(download_dir, exist_ok=True), then the loop starts.
DlMakedirs ==
  /\ pc = "dl_makedirs"
  /\ \E ok \in BOOLEAN :
       /\ Logged(Ev("makedirs", 0, IF ok THEN "ok" ELSE "raised"))
       /\ IF ok THEN /\ pc' = IF video_list[1] = <<>> THEN "run_guard" ELSE "dl_loop"
                     /\ idx' = 1
                     /\ exc' = exc
               ELSE Raise("Other") /\ idx' = idx
  /\ UNCHANGED <<config, download_first, tokenFile, pages, remote, service, youtube,
                 creds, items, next_page_token, video_list, report, calls>>

\* DlItem without the except clauses of lines 201-204: a failed invocation
\* leaves download().
DlItemFailureRaises ==
  /\ pc = "dl_loop"
  /\ \E res \in {"ok", "CalledProcessError", "FileNotFoundError", "Other"} :
       /\ Logged(Ev("yt_dlp", video_list[1][idx],
                    IF res = "ok" THEN "ok" ELSE IF res = "Other" THEN "raised" ELSE "failed"))
       /\ IF res # "ok"
          THEN Raise("Other") /\ idx' = idx
          ELSE /\ idx' = idx + 1
               /\ pc' = IF idx = Len(video_list[1]) THEN "run_guard" ELSE "dl_loop"
               /\ exc' = exc
  /\ UNCHANGED <<config, download_first, tokenFile, pages, remote, service, youtube,
                 creds, items, next_page_token, video_list, report, calls>>

\* DlItem that leaves the loop at the first failed invocation.
DlItemStopsOnFailure ==
  /\ pc = "dl_loop"
  /\ \E res \in {"ok", "CalledProcessError", "FileNotFoundError", "Other"} :
       /\ Logged(Ev("yt_dlp", video_list[1][idx],
                    IF res = "ok" THEN "ok" ELSE IF res = "Other" THEN "raised" ELSE "failed"))
       /\ IF res = "Other"
          THEN Raise("Other") /\ idx' = idx
          ELSE /\ idx' = idx + 1
               /\ pc' = IF idx = Len(video_list[1]) \/ res # "ok"
                        THEN "run_guard" ELSE "dl_loop"
               /\ exc' = exc
  /\ UNCHANGED <<config, download_first, tokenFile, pages, remote, service, youtube,
                 creds, items, next_page_token, video_list, report, calls>>

\* Lines 182-204: one iteration: run_yt_dlp.sh for one video. A non-zero
\* exit (CalledProcessError) and FileNotFoundError are printed and the loop
\* goes on; anything else leaves download().
DlItem ==
  /\ pc = "dl_loop"
  /\ \E res \in {"ok", "CalledProcessError", "FileNotFoundError", "Other"} :
       /\ Logged(Ev("yt_dlp", video_list[1][idx],
                    IF res = "ok" THEN "ok" ELSE IF res = "Other" THEN "raised" ELSE "failed"))
       /\ IF res = "Other"
          THEN Raise("Other") /\ idx' = idx
          ELSE /\ idx' = idx + 1
               /\ pc' = IF idx = Len(video_list[1]) THEN "run_guard" ELSE "dl_loop"
               /\ exc' = exc
  /\ UNCHANGED <<config, download_first, tokenFile, pages, remote, service, youtube,
                 creds, items, next_page_token, video_list, report, calls>>

\* Lines 282-290: no playlist_id aborts the deletion; otherwise delete what
\* was found or report the empty playlist.
RunGuard ==
  /\ pc = "run_guard"
  /\ IF ~Truthy(config.playlist_id)
     THEN pc' = "done" /\ report' = "NoPlaylistId" /\ idx' = idx
     ELSE IF items # <<>>
     THEN pc' = "delete" /\ report' = report /\ idx' = 1
     ELSE pc' = "done" /\ report' = "AlreadyEmpty" /\ idx' = idx
  /\ UNCHANGED <<config, download_first, tokenFile, pages, remote, service, youtube,
                 creds, items, next_page_token, video_list, exc, calls, log>>

\* ----------------------------------------- YouTubePlaylistManager.delete_items
\* DelItem that leaves the loop at the first HttpError.
DelItemStopsOnError ==
  /\ pc = "delete"
  /\ \E res \in {"ok", "HttpError"} \cup Unclassified :
       /\ Logged(Ev("delete", items[idx], res))
       /\ remote' = IF res = "ok" THEN remote \ {items[idx]} ELSE remote
       /\ IF res \in Unclassified
          THEN Raise(res) /\ UNCHANGED <<idx, report>>
          ELSE /\ idx' = idx + 1
               /\ exc' = exc
               /\ IF idx = Len(items) \/ res = "HttpError"
                  THEN pc' = "done" /\ report' = "AllDeleted"
                  ELSE pc' = "delete" /\ report' = report
  /\ UNCHANGED <<config, download_first, tokenFile, pages, service, youtube,
                 creds, items, next_page_token, video_list, calls>>

\* Lines 144-152 and 288: one iteration: playlistItems().delete(id=...); an
\* HttpError is printed and the loop goes on. After the last item run prints
\* "All videos deleted".
DelItem ==
  /\ pc = "delete"
  /\ \E res \in {"ok", "HttpError"} \cup Unclassified :
       /\ Logged(Ev("delete", items[idx], res))
       /\ remote' = IF res = "ok" THEN remote \ {items[idx]} ELSE remote
       /\ IF res \in Unclassified
          THEN Raise(res) /\ UNCHANGED <<idx, report>>
          ELSE /\ idx' = idx + 1
               /\ exc' = exc
               /\ IF idx = Len(items)
                  THEN pc' = "done" /\ report' = "AllDeleted"
                  ELSE pc' = "delete" /\ report' = report
  /\ UNCHANGED <<config, download_first, tokenFile, pages, service, youtube,
                 creds, items, next_page_token, video_list, calls>>

\* RunExcept with the ConnectionError handler alone: any other exception
\* leaves run.
RunExceptConnectionOnly ==
  /\ pc = "except"
  /\ IF exc = "ConnectionError"
     THEN pc' = "done" /\ report' = "NetworkError" /\ exc' = ""
     ELSE pc' = "raised" /\ report' = report /\ exc' = exc
  /\ UNCHANGED <<config, download_first, tokenFile, pages, remote, service, youtube,
                 creds, items, next_page_token, video_list, idx, calls, log>>

\* RunExcept with the generic handler alone: every exception gets the
\* unexpected-error report.
RunExceptGenericOnly ==
  /\ pc = "except"
  /\ pc' = "done"
  /\ report' = "Unexpected"
  /\ exc' = ""
  /\ UNCHANGED <<config, download_first, tokenFile, pages, remote, service, youtube,
                 creds, items, next_page_token, video_list, idx, calls, log>>

\* Lines 292-296: the two handlers around the body of run.
RunExcept ==
  /\ pc = "except"
  /\ pc' = "done"
  /\ report' = IF exc = "ConnectionError" THEN "NetworkError" ELSE "Unexpected"
  /\ exc' = ""
  /\ UNCHANGED <<config, download_first, tokenFile, pages, remote, service, youtube,
                 creds, items, next_page_token, video_list, idx, calls, log>>

\* Lines 25-48: YouTubeConfig(playlist_url=..., playlist_id=...): the
\* generated __init__ stores the arguments, then __post_init__ runs.
Construct ==
  /\ pc = "construct"
  /\ config' = YouTubeConfig(config.playlist_url, config.playlist_id)
  /\ pc' = "constructed"
  /\ UNCHANGED <<download_first, tokenFile, pages, remote, service, youtube, creds,
                 items, next_page_token, video_list, idx, exc, report, calls, log>>

\* ------------------------------------------------------------ specifications
\* One PlaylistTruncator, freshly constructed, and one call of run.
Init ==
  /\ \E u \in Urls, i \in ExplicitIds : config = YouTubeConfig(u, i)
  /\ download_first \in BOOLEAN
  /\ tokenFile \in RunTokenFiles
  /\ \E sizes \in PageSizes : pages = PagesOf(sizes)
  /\ remote = AllIds(pages)
  /\ pc = "run"
  /\ service = NoService
  /\ youtube = NoService
  /\ creds = None
  /\ items = <<>>
  /\ next_page_token = NoToken
  /\ video_list = None
  /\ idx = 0
  /\ exc = ""
  /\ report = ""
  /\ calls = 0
  /\ log = <<>>

Next ==
  \/ RunCheck
  \/ GsEntry
  \/ GsLoad
  \/ GsRefresh
  \/ GsFlowStart
  \/ GsNotify
  \/ GsFlow
  \/ GsSave
  \/ GsBuild
  \/ RunManager
  \/ ListPage
  \/ RunFound
  \/ DlEntry
  \/ DlMakedirs
  \/ DlItem
  \/ RunGuard
  \/ DelItem
  \/ RunExcept

Spec == Init /\ [][Next]_vars

\* The run is one sequential thread: a step that can be taken is taken.
FairSpec == Spec /\ WF_vars(Next)

\* One YouTubeAuthenticator, freshly constructed, whose get_service is called
\* up to MaxCalls times.
InitAuth ==
  /\ \E e \in Settings, h \in {None, Some(<<"s">>)}, u \in Settings, p \in Settings :
       config = WithEmail(YouTubeConfig(None, None), e, h, u, p)
  /\ download_first = FALSE
  /\ tokenFile \in TokenFiles
  /\ pages = <<<<>>>>
  /\ remote = {}
  /\ pc = "get_service"
  /\ service = NoService
  /\ youtube = NoService
  /\ creds = None
  /\ items = <<>>
  /\ next_page_token = NoToken
  /\ video_list = None
  /\ idx = 0
  /\ exc = ""
  /\ report = ""
  /\ calls = 1
  /\ log = <<>>

NextAuth ==
  \/ GsEntry
  \/ GsLoad
  \/ GsRefresh
  \/ GsFlowStart
  \/ GsNotify
  \/ GsFlow
  \/ GsSave
  \/ GsBuild
  \/ CallAgain

SpecAuth == InitAuth /\ [][NextAuth]_vars

\* One construction of a YouTubeConfig; before the step, config holds the
\* constructor's arguments.
InitConfig ==
  /\ \E u \in ConfigUrls, i \in ConfigIds :
       config = [YouTubeConfig(None, None) EXCEPT !.playlist_url = u, !.playlist_id = i]
  /\ download_first = FALSE
  /\ tokenFile = Absent
  /\ pages = <<<<>>>>
  /\ remote = {}
  /\ pc = "construct"
  /\ service = NoService
  /\ youtube = NoService
  /\ creds = None
  /\ items = <<>>
  /\ next_page_token = NoToken
  /\ video_list = None
  /\ idx = 0
  /\ exc = ""
  /\ report = ""
  /\ calls = 0
  /\ log = <<>>

NextConfig == Construct

SpecConfig == InitConfig /\ [][NextConfig]_vars

\* The collections a PlaylistDownloader is constructed on: video ids in any
\* order, without repetition.
VideoLists ==
  UNION {{v \in [1..n -> 1..MaxItems] : \A a, b \in 1..n : v[a] = v[b] => a = b} :
           n \in 0..MaxItems}

\* One PlaylistDownloader(config, video_list) and one call of download();
\* pc = "run_guard" is the caller's position after download() has returned.
InitDownload ==
  /\ \E u \in {None, Some(<<>>), Some(UrlList)} : config = YouTubeConfig(u, None)
  /\ download_first = TRUE
  /\ tokenFile = Absent
  /\ pages = <<<<>>>>
  /\ remote = {}
  /\ pc = "download"
  /\ service = NoService
  /\ youtube = NoService
  /\ creds = None
  /\ items = <<>>
  /\ next_page_token = NoToken
  /\ \E v \in VideoLists : video_list = Some(v)
  /\ idx = 0
  /\ exc = ""
  /\ report = ""
  /\ calls = 0
  /\ log = <<>>

NextDownload ==
  \/ DlEntry
  \/ DlMakedirs
  \/ DlItem

SpecDownload == InitDownload /\ [][NextDownload]_vars

\* ------------------------------------------------------------------ claims
\* The calls of one kind, in the order they were issued.
Calls(op) == SelectSeq(log, LAMBDA e : e.op = op)
At(op) == {i \in 1..Len(log) : log[i].op = op}
DownloadOps == {"check_download", "makedirs", "yt_dlp"}

\* C1: with download_first true and a playlist URL configured, once a delete
\* call has been issued the downloader was constructed on exactly the items
\* the read returned, control has left download(), and every call the
\* downloader made precedes every delete call in the order of issue.
C1_DownloadBeforeDelete ==
  (download_first /\ Truthy(config.playlist_url) /\ At("delete") # {}) =>
    /\ video_list = Some(items)
    /\ pc \in {"delete", "except", "done"}
    /\ \A d \in At("delete") : \A i \in 1..Len(log) :
         log[i].op \in DownloadOps => i < d

C1_Witness ==
  /\ download_first /\ Truthy(config.playlist_url)
  /\ Len(Calls("yt_dlp")) >= 2
  /\ Len(Calls("delete")) >= 2

\* C2: when the connectivity check at the top of run returns false, that
\* check is the only external call of the run (no authentication, read,
\* download or delete call), nothing is cached or deleted, and the run has
\* ended with the "no internet connection" report.
C2_NoCallsWithoutConnectivity ==
  (log # <<>> /\ log[1] = Ev("check_run", 0, "down")) =>
    /\ Len(log) = 1
    /\ pc = "done"
    /\ report = "NoInternet"
    /\ service = NoService
    /\ remote = AllIds(pages)

C2_Witness ==
  /\ log = <<Ev("check_run", 0, "down")>>
  /\ pc = "done"
  /\ AllIds(pages) # {}

\* C3: while no page request has failed, the k-th request carries the
\* cursor of the (k-1)-th response (none for the first), no request follows
\* a response without cursor, list_items does not return before such a
\* response, and when it returns `items` is the whole playlist in server order.
C3_Pagination ==
  LET L == Calls("list")
      n == Len(L)
  IN  (\A k \in 1..n : L[k].res = "ok") =>
        /\ \A k \in 1..n :
             L[k].arg = IF k = 1 THEN NoToken ELSE Serve(L[k - 1].arg).nextPageToken
        /\ \A k \in 1..(n - 1) : Serve(L[k].arg).nextPageToken # NoToken
        /\ (n > 0 /\ pc # "list_items") =>
             /\ Serve(L[n].arg).nextPageToken = NoToken
             /\ n = Len(pages)
             /\ items = Flatten(pages)
             /\ Len(items) = Cardinality(AllIds(pages))

C3_Witness ==
  /\ pc = "run_found"
  /\ Len(Calls("list")) = 2
  /\ \A i \in At("list") : log[i].res = "ok"
  /\ Len(pages[1]) >= 1 /\ Len(pages[2]) >= 1
  /\ Len(items) = 3

ErrorReports == {"NoInternet", "NetworkError", "Unexpected"}

\* list_items has returned to run (normally), and what it returned is `items`.
ListReturned ==
  LET L == Calls("list")
  IN  /\ L # <<>>
      /\ pc # "list_items"
      /\ L[Len(L)].res \in {"ok", "HttpError"}

\* C6: whenever the read returned zero items and the run ended without an
\* error report, no delete call was issued and the report is "already
\* empty", with or without download_first and whatever the playlist URL and
\* identifier are.
C6_EmptyAlwaysReportsEmpty ==
  (ListReturned /\ items = <<>> /\ pc = "done" /\ report \notin ErrorReports) =>
    /\ At("delete") = {}
    /\ report = "AlreadyEmpty"

\* C7: when the playlist identifier is unset after __post_init__, the run
\* issues no playlistItems.list call and no delete call, and a run that ends
\* without an error report says that deletion is aborted.
C7_NoPlaylistCallsWithoutId ==
  ~Truthy(config.playlist_id) =>
    /\ At("list") = {}
    /\ At("delete") = {}
    /\ (pc = "done" /\ report \notin ErrorReports) => report = "NoPlaylistId"

\* The terminal state a report stands for.
TerminalState ==
  CASE report \in {"AllDeleted", "AlreadyEmpty", "NoPlaylistId"} -> "success"
    [] report \in {"NoInternet", "NetworkError"} -> "connectivity-abort"
    [] report = "Unexpected" -> "unexpected-error-abort"
    [] OTHER -> "running"

\* C8: whatever the external calls do (return or raise), no exception leaves
\* run, a run that has ended is in one of the terminal states success,
\* connectivity-abort or unexpected-error-abort with no exception in flight,
\* and every run ends.
C8_RunEnds ==
  /\ [](pc # "raised")
  /\ [](pc = "done" => (exc = "" /\ TerminalState # "running"))
  /\ [](pc # "done" => TerminalState = "running")
  /\ <>(pc = "done")

C8_Witness ==
  /\ pc = "done"
  /\ TerminalState = "unexpected-error-abort"
  /\ log[Len(log)] = Ev("delete", 2, "Other")
  /\ At("yt_dlp") # {}

\* C9: a token file that cannot be opened or unpickled raises nothing: right
\* after the failed read get_service holds no credentials, has no exception
\* in flight, has left the file alone and stands where a missing file would
\* have put it, in the interactive flow; the next external call of that
\* get_service call belongs to the flow (the flow itself or its notification
\* mail), never a refresh.
C9_CorruptCacheIgnored ==
  \A i \in At("token_read") :
    log[i].res = "error" =>
      /\ i = Len(log) =>
           /\ pc \in {"gs_flow", "gs_notify", "gs_wait"}
           /\ SelectPath(None) = "gs_flow"
           /\ creds = None
           /\ exc = ""
           /\ tokenFile.file \in {"corrupt", "unreadable"}
      /\ i < Len(log) => log[i + 1].op \in {"flow", "smtp"}

C9_Witness ==
  /\ pc = "gs_return"
  /\ calls = 1
  /\ SubSeq(log, 2, Len(log)) = <<Ev("token_read", 0, "error"), Ev("flow", 0, "ok"),
                                 Ev("token_write", 0, "ok"), Ev("build", 0, "ok")>>
  /\ service # NoService

\* C10: once get_service has succeeded on an authenticator, the cached handle
\* never changes; every later call returns that handle at once, and issues
\* no external call at all (no connectivity check, no token file read or
\* write, no refresh, no interactive flow).
C10_CachedHandle ==
  [][service # NoService =>
       /\ service' = service
       /\ log' = log
       /\ tokenFile' = tokenFile
       /\ pc = "get_service" => (pc' = "gs_return" /\ youtube' = service)]_vars

C10_Witness ==
  /\ calls = 2
  /\ pc = "gs_return"
  /\ service # NoService
  /\ youtube = service
  /\ Len(Calls("check_auth")) = 1
  /\ Len(Calls("build")) = 1

\* An external call whose outcome is not an item-level or page-level failure
\* but ends what called it: an exception no handler inside the step catches,
\* or the connectivity gate of run / get_service answering false.
Aborting(e) ==
  \/ e.res \in {"raised", "open_raised", "dump_raised"} \cup Unclassified
  \/ e.op \in {"check_run", "check_auth"} /\ e.res = "down"

\* The arguments of the calls of one kind, in order.
Args(op) == [k \in 1..Len(Calls(op)) |-> Calls(op)[k].arg]

\* C11: a failed page read (HttpError), a failed download invocation
\* (non-zero exit, missing tool) or a failed delete call (HttpError) never
\* puts an exception in flight nor an error report; a run in which nothing
\* but such failures happened ends in the success state after the download
\* of every item read (when the downloader ran) and the delete call for every
\* item read (when a playlist identifier is configured); and a run that ends
\* in another state ends on connectivity loss or an unclassified exception.
C11_LocalFailuresDoNotAbort ==
  /\ (log # <<>> /\ log[Len(log)].res \in {"HttpError", "failed"}) =>
       (pc \notin {"except", "raised"} /\ exc = "" /\ report \notin ErrorReports)
  /\ (pc = "done" /\ \A i \in 1..Len(log) : ~Aborting(log[i])) =>
       /\ TerminalState = "success"
       /\ (At("makedirs") # {}) => Args("yt_dlp") = items
       /\ Truthy(config.playlist_id) => Args("delete") = items
  /\ (pc = "done" /\ TerminalState # "success") => Aborting(log[Len(log)])

C11_Witness ==
  /\ pc = "done"
  /\ report = "AllDeleted"
  /\ \E i \in At("list") : log[i].res = "HttpError"
  /\ \E i \in At("yt_dlp") : log[i].res = "failed" /\ log[i].arg = 1
  /\ \E i \in At("delete") : log[i].res = "HttpError" /\ log[i].arg = 1
  /\ Args("yt_dlp") = <<1, 2>>
  /\ Args("delete") = <<1, 2>>

\* The value of a URL's query parameter, read from the URL's text: the
\* fragment starts at the first "#", the query at the first "?" before it, the
\* parameters are separated by "&", the name ends at the first "=".
FirstAt(str, ch) ==
  LET at == {j \in 1..Len(str) : str[j] = ch}
  IN  IF at = {} THEN Len(str) + 1 ELSE CHOOSE j \in at : \A k \in at : j <= k

QueryOf(url) ==
  LET nofrag == SubSeq(url, 1, FirstAt(url, "#") - 1)
  IN  SubSeq(nofrag, FirstAt(nofrag, "?") + 1, Len(nofrag))

RECURSIVE Split(_, _)
Split(str, ch) ==
  LET j == FirstAt(str, ch)
  IN  IF j > Len(str) THEN <<str>>
      ELSE <<SubSeq(str, 1, j - 1)>> \o Split(SubSeq(str, j + 1, Len(str)), ch)

\* None when the URL has no parameter of that name with a value.
QueryParam(url, name) ==
  LET ps == Split(QueryOf(url), "&")
      hit == {k \in 1..Len(ps) : /\ Len(ps[k]) > Len(name) + 1
                                 /\ SubSeq(ps[k], 1, Len(name) + 1) = name \o <<"=">>}
  IN  IF hit = {} THEN None
      ELSE LET k == CHOOSE k \in hit : \A h \in hit : k <= h
           IN  Some(SubSeq(ps[k], Len(name) + 2, Len(ps[k])))

\* C12: after construction with a playlist URL and no explicit identifier,
\* the identifier is the value of the URL's list query parameter, and is
\* unset when the URL has no such parameter.
C12_IdIsListParameter ==
  [][(pc = "construct" /\ pc' = "constructed"
      /\ Truthy(config.playlist_url) /\ ~Truthy(config.playlist_id)) =>
       LET q == QueryParam(config.playlist_url[1], <<"l", "i", "s", "t">>)
       IN  IF q # None THEN config'.playlist_id = q
           ELSE ~Truthy(config'.playlist_id)]_vars

\* The positions of get_service inside the interactive flow.
FlowPcs == {"gs_flow", "gs_notify", "gs_wait"}

\* The credential path the token file on disk calls for.
PathFor(tf) ==
  IF tf.file = "pickle" /\ tf.creds[1].valid THEN "reuse"
  ELSE IF tf.file = "pickle" /\ tf.creds[1].expired /\ tf.creds[1].refresh_token
       THEN "refresh"
       ELSE "interactive"

\* The operation of the external call a step has issued, "" when none.
Issued == IF log' = log THEN "" ELSE log'[Len(log')].op

\* C13: after loading the token file get_service takes exactly one path: a
\* valid credential goes straight to build, unchanged; an invalid, expired
\* one with a refresh token goes to the refresh exchange; everything else
\* (no file, unreadable file, invalid without refresh token or not expired)
\* goes to the interactive flow. Refresh and flow are entered from the load
\* only, a refresh is never followed by the flow nor the flow by a refresh,
\* and refresh / flow / notification calls are issued only on their own path.
C13_OneCredentialPath ==
  [][/\ pc = "gs_load" =>
          /\ PathFor(tokenFile) = "reuse" =>
               (pc' = "gs_build" /\ creds' = tokenFile.creds /\ tokenFile' = tokenFile)
          /\ PathFor(tokenFile) = "refresh" => pc' = "gs_refresh"
          /\ PathFor(tokenFile) = "interactive" => pc' = "gs_flow"
     /\ (pc' = "gs_refresh" /\ pc # "gs_refresh") => pc = "gs_load"
     /\ (pc' \in FlowPcs /\ pc \notin FlowPcs) => (pc = "gs_load" /\ pc' = "gs_flow")
     /\ (pc' = "gs_build" /\ pc # "gs_build") => pc \in {"gs_load", "gs_save"}
     /\ pc = "gs_refresh" => pc' \in {"gs_save", "except"}
     /\ pc \in FlowPcs => pc' \in FlowPcs \cup {"gs_save", "except"}
     /\ Issued = "refresh" => pc = "gs_refresh"
     /\ Issued \in {"flow", "smtp"} => pc \in FlowPcs]_vars

C13_Witness ==
  /\ pc = "gs_return"
  /\ calls = 2
  /\ [k \in 1..Len(log) |-> log[k].op] =
       <<"check_auth", "token_read", "refresh", "token_write",
         "check_auth", "token_read", "flow", "token_write", "build">>
  /\ log[2].res = "ok"
  /\ log[4].res = "dump_raised"
  /\ log[6].res = "error"

\* C14: the token file is written exactly after a refresh exchange or an
\* interactive flow that completed: a write is attempted only as the call
\* right after a successful refresh or flow, every successful refresh or flow
\* leads to the write as the next step, a successful write stores the new
\* credential, and no other step changes the file (not the reuse of a valid
\* credential, not a failed connectivity check, not a refresh or flow that
\* raised).
C14_TokenWrittenAfterAuth ==
  [][/\ Issued = "token_write" =>
          /\ pc = "gs_save"
          /\ log[Len(log)].op \in {"refresh", "flow"}
          /\ log[Len(log)].res = "ok"
     /\ Issued # "token_write" => tokenFile' = tokenFile
     /\ (Issued \in {"refresh", "flow"} /\ log'[Len(log')].res = "ok") => pc' = "gs_save"
     /\ (Issued \in {"refresh", "flow"} /\ log'[Len(log')].res # "ok") => pc' = "except"
     /\ pc = "gs_save" =>
          /\ Issued = "token_write"
          /\ log'[Len(log')].res = "ok" =>
               (tokenFile' = Pickled(creds[1]) /\ creds[1].valid /\ pc' = "gs_build")
          /\ log'[Len(log')].res = "open_raised" => tokenFile' = tokenFile]_vars

C14_Witness ==
  /\ pc = "gs_return"
  /\ calls = 2
  /\ log = <<Ev("check_auth", 0, "up"), Ev("token_read", 0, "ok"), Ev("refresh", 0, "raised"),
             Ev("check_auth", 0, "up"), Ev("token_read", 0, "ok"), Ev("refresh", 0, "ok"),
             Ev("token_write", 0, "ok"), Ev("build", 0, "ok")>>
  /\ tokenFile = Pickled(Cred(TRUE, FALSE, TRUE))

\* The external calls of authentication after the connectivity check, and
\* the calls on the playlist.
AuthOps == {"token_read", "refresh", "flow", "smtp", "token_write", "build"}
PlaylistOps == {"list", "delete"} \cup DownloadOps

\* C15: in a run, a failed connectivity check of get_service is the last
\* external call: no token file access, refresh, flow, read, download or
\* delete call exists, the exception in flight is the connectivity error and
\* the run reports it as the network abort; an exception raised by refresh,
\* flow, token write or client build is the last external call as well, with
\* no read, download or delete call, and the run reports it as unexpected.
C15_AuthFailureReports ==
  /\ \A i \in At("check_auth") :
       log[i].res = "down" =>
         /\ log = <<Ev("check_run", 0, "up"), Ev("check_auth", 0, "down")>>
         /\ service = NoService
         /\ \/ pc = "except" /\ exc = "ConnectionError" /\ report = ""
            \/ pc = "done" /\ exc = "" /\ report = "NetworkError"
  /\ \A i \in 1..Len(log) :
       (log[i].op \in AuthOps /\ Aborting(log[i])) =>
         /\ i = Len(log)
         /\ \A k \in 1..Len(log) : log[k].op \notin PlaylistOps
         /\ service = NoService
         /\ \/ pc = "except" /\ exc = "Other" /\ report = ""
            \/ pc = "done" /\ exc = "" /\ report = "Unexpected"

C15_Witness ==
  /\ pc = "done"
  /\ report = "NetworkError"
  /\ log = <<Ev("check_run", 0, "up"), Ev("check_auth", 0, "down")>>

\* send_auth_url gets as far as the SMTP session.
MailConfigured ==
  /\ Truthy(config.notification_email)
  /\ Truthy(config.smtp_username)
  /\ Truthy(config.smtp_password)

\* C16: on the interactive path the notifier always returns into the flow:
\* whatever it did (nothing for a missing address or missing credentials,
\* one SMTP session that sent the mail or failed), no exception is in flight,
\* credentials, token file and handle are untouched, at most one SMTP
\* session was made and none follows it, and the next step is the flow's
\* completion; a flow that completed after it is followed by the token write
\* and the build, and the call returns the handle with the credential on disk.
C16_NotifierNeverAffectsAuth ==
  /\ [][/\ pc = "gs_notify" =>
             /\ pc' = "gs_wait" /\ exc' = "" /\ exc = ""
             /\ UNCHANGED <<creds, tokenFile, service, youtube>>
             /\ (Issued = "smtp") = MailConfigured
             /\ Issued \in {"", "smtp"}
        /\ Issued = "smtp" =>
             /\ pc = "gs_notify"
             /\ log = <<>> \/ log[Len(log)].op # "smtp"
             /\ log' = Append(log, log'[Len(log')])
        /\ pc = "gs_wait" =>
             /\ Issued = "flow"
             /\ log'[Len(log')].res = "ok" => pc' = "gs_save"]_vars
  /\ [](\A i \in At("smtp") :
          /\ i = Len(log) => (pc = "gs_wait" /\ exc = "")
          /\ i < Len(log) => log[i + 1].op = "flow"
          /\ (i + 3 <= Len(log) /\ log[i + 1].res = "ok") =>
               /\ log[i + 2].op = "token_write"
               /\ (log[i + 2].res = "ok" => log[i + 3].op = "build")
          /\ (i + 3 = Len(log) /\ log[i + 1].res = "ok" /\ log[i + 3].res = "ok"
              /\ pc = "gs_return") =>
               /\ tokenFile = Pickled(Cred(TRUE, FALSE, TRUE))
               /\ youtube = service /\ service # NoService)

C16_Witness ==
  /\ pc = "gs_return"
  /\ calls = 1
  /\ MailConfigured
  /\ log = <<Ev("check_auth", 0, "up"), Ev("smtp", 0, "failed"), Ev("flow", 0, "ok"),
             Ev("token_write", 0, "ok"), Ev("build", 0, "ok")>>
  /\ tokenFile = Pickled(Cred(TRUE, FALSE, TRUE))
  /\ service # NoService

\* C17: once download() is past its two checks and the directory exists, the
\* tool is invoked for the items of the collection in collection order, one
\* invocation per item: after n invocations that succeeded or failed
\* (non-zero exit, missing tool) the loop stands at item n + 1, and
\* download() returns normally after exactly K invocations.
C17_OneInvocationPerItem ==
  LET D == Calls("yt_dlp")
      n == Len(D)
      V == video_list[1]
  IN  /\ n <= Len(V)
      /\ \A k \in 1..n : D[k].arg = V[k]
      /\ n > 0 => /\ Truthy(config.playlist_url)
                  /\ SubSeq(log, 1, 2) = <<Ev("check_download", 0, "up"),
                                           Ev("makedirs", 0, "ok")>>
      /\ (Ev("makedirs", 0, "ok") \in {log[i] : i \in 1..Len(log)}
          /\ \A k \in 1..n : D[k].res \in {"ok", "failed"}) =>
           /\ exc = ""
           /\ IF n < Len(V) THEN pc = "dl_loop" /\ idx = n + 1
                            ELSE pc = "run_guard"

C17_Witness ==
  /\ pc = "run_guard"
  /\ video_list = Some(<<2, 1, 3>>)
  /\ Calls("yt_dlp") = <<Ev("yt_dlp", 2, "failed"), Ev("yt_dlp", 1, "failed"),
                         Ev("yt_dlp", 3, "ok")>>

\* C18: download() without a playlist URL makes no external call at all and
\* returns; download() whose connectivity check answers false has made that
\* one call only (no directory creation, no tool invocation, no second
\* check) and has returned, with no exception in flight.
C18_DownloadNoOp ==
  /\ ~Truthy(config.playlist_url) =>
       (log = <<>> /\ exc = "" /\ pc \in {"download", "run_guard"})
  /\ Len(Calls("check_download")) <= 1
  /\ \A i \in At("check_download") :
       log[i].res = "down" =>
         (log = <<Ev("check_download", 0, "down")>> /\ exc = "" /\ pc = "run_guard")

C18_Witness ==
  /\ pc = "run_guard"
  /\ video_list = Some(<<1, 2, 3>>)
  /\ log = <<Ev("check_download", 0, "down")>>

\* C19: with a playlist identifier configured and at least one item read, a
\* run that ends without connectivity loss or an unclassified exception has
\* issued a delete call for every item read, in order, whatever the download
\* did: every item whose download invocation failed has its delete call
\* later in the run, and when the downloader's own connectivity check
\* answered false no tool was invoked and all the delete calls were issued.
C19_DeleteIndependentOfDownload ==
  (/\ Truthy(config.playlist_id)
   /\ items # <<>>
   /\ pc = "done"
   /\ \A i \in 1..Len(log) : ~Aborting(log[i])) =>
     /\ report = "AllDeleted"
     /\ Args("delete") = items
     /\ \A i \in At("yt_dlp") :
          log[i].res = "failed" =>
            \E j \in At("delete") : j > i /\ log[j].arg = log[i].arg
     /\ \A i \in At("check_download") :
          log[i].res = "down" =>
            /\ At("yt_dlp") = {} /\ At("makedirs") = {}
            /\ \A k \in 1..Len(items) : log[i + k] = Ev("delete", items[k], log[i + k].res)

C19_Witness ==
  /\ pc = "done"
  /\ report = "AllDeleted"
  /\ Truthy(config.playlist_id)
  /\ log[1] = Ev("check_run", 0, "up")
  /\ \E i \in At("check_download") : log[i].res = "down"
  /\ Args("delete") = <<1, 2>>
  /\ remote = {}

\* C20: the cached handle is assigned in one step only, the build that
\* succeeds and returns it; a get_service call that raised (failed
\* connectivity check, refresh, flow, token write or build) has left no handle
\* cached, and a call entered with no handle cached starts with the
\* connectivity check and, when that passes, loads the credentials from the
\* token file again.
C20_NoHandleAfterFailure ==
  /\ [][/\ service' # service =>
             /\ pc = "gs_build" /\ pc' = "gs_return"
             /\ Issued = "build" /\ log'[Len(log')].res = "ok"
             /\ service = NoService /\ youtube' = service'
        /\ (pc = "get_service" /\ service = NoService) =>
             /\ Issued = "check_auth"
             /\ creds' = None
             /\ pc' = IF log'[Len(log')].res = "up" THEN "gs_load" ELSE "except"
        /\ pc = "gs_load" =>
             creds' = IF tokenFile.file = "pickle" THEN tokenFile.creds ELSE None]_vars
  /\ [](pc = "except" => (service = NoService /\ exc # ""))

C20_Witness ==
  /\ pc = "gs_return"
  /\ calls = 2
  /\ service # NoService
  /\ log = <<Ev("check_auth", 0, "up"), Ev("flow", 0, "ok"), Ev("token_write", 0, "open_raised"),
             Ev("check_auth", 0, "up"), Ev("flow", 0, "ok"), Ev("token_write", 0, "ok"),
             Ev("build", 0, "ok")>>

====
